---- MODULE Spec2Model ----
(***************************************************************************)
(* Model of src/src/crypto/PrivateKeyBundle.ts: a private key bundle (one  *)
(* identity key and a list of pre-keys, newest first), its X3DH-style      *)
(* sharedSecret, and its encrypted encode/decode for storage.              *)
(*                                                                         *)
(* Key material is modelled in a toy Diffie-Hellman group (Z_p^*, a prime  *)
(* modulus and a generator), so that a public key is really derived from a *)
(* secret and a shared secret is really computed from one party's secret   *)
(* and the other's public point.  Signatures and the AEAD envelope are     *)
(* modelled by their ideal functionality.  An absent (undefined) value is  *)
(* the empty sequence and a present value x is <<x>>.                      *)
(***************************************************************************)
EXTENDS Integers, Sequences, FiniteSets, TLC

\* ------------------------------------------------------------------ bounds

\* The most pre-keys (in the list or being signed) a bundle gets.
MaxPreKeys == 3
\* The most addPreKey calls of one bundle suspended at their signing step.
MaxPending == 2
\* The most bundles with a generate or addPreKey call in flight at one time
\* (steps on different bundles touch disjoint objects and commute).
MaxBusy == 1
\* How many seeds the entropy source may start from.
EntropySeeds == 2

\* ------------------------------------------------------ values and helpers

Names == {"A", "B"}

None == <<>>
Some(x) == <<x>>
IsSome(o) == Len(o) = 1
Get(o) == o[1]

\* The group: integers 1..p-1 under multiplication modulo the prime p; g
\* generates it, so distinct scalars in 1..p-1 have distinct public points.
Group == [p |-> 13, g |-> 2]
Scalars == 1 .. (Group.p - 1)

RECURSIVE Pow(_, _)
Pow(b, e) == IF e = 0 THEN 1 ELSE (b * Pow(b, e - 1)) % Group.p

\* PrivateKey.sharedSecret(peer): this key's secret combined with the peer's
\* public point.
DH(secret, point) == Pow(point, secret)

\* A shared secret as a fixed-length byte string (two base-4 digits).
ToBytes(x) == <<x \div 4, x % 4>>

\* A signature: by the holder of a secret, over a message.
Sign(secret, message) == [by |-> Pow(Group.g, secret), over |-> message]
Verify(point, message, sig) == sig.by = point /\ sig.over = message

\* PublicKey: a point and an optional signature over it.
PublicKeyOf(secret) == [point |-> Pow(Group.g, secret), signature |-> None]

\* PrivateKey.generate(): a secret scalar and its public key (unsigned).
PrivateKeyOf(secret) == [secret |-> secret, publicKey |-> PublicKeyOf(secret)]

\* PrivateKey.signKey(pub): signs pub's bytes and attaches the signature.
signKey(identityKey, key) ==
  [key EXCEPT !.publicKey.signature =
                 Some(Sign(identityKey.secret, key.publicKey.point))]

\* PublicKey.verifyKey(pub): pub carries a signature by this key over pub.
verifyKey(identityPub, pub) ==
  /\ IsSome(pub.signature)
  /\ Verify(identityPub.point, pub.point, Get(pub.signature))

\* PrivateKey.matches(pub): this key's public half equals pub.
matches(key, which) == key.publicKey.point = which.point

\* --------------------------------------------------- PrivateKeyBundle (pure)

\* constructor(identityKey, preKeys?): preKeys defaults to the empty list.
PrivateKeyBundle(identityKey, preKeys) ==
  [identityKey |-> identityKey, preKeys |-> preKeys]

\* getCurrentPreKey(): this.preKeys[0], undefined when the list is empty.
getCurrentPreKey(b) ==
  IF Len(b.preKeys) = 0 THEN None ELSE Some(b.preKeys[1])

\* A faulty variant: findPreKey looks at the current pre-key only.
findPreKey_currentOnly(b, which) ==
  IF Len(b.preKeys) > 0 /\ matches(b.preKeys[1], which)
  THEN Some(b.preKeys[1]) ELSE None

\* A faulty variant: the last pre-key that matches is taken.
findPreKey_last(b, which) ==
  LET hits == {i \in 1 .. Len(b.preKeys) : matches(b.preKeys[i], which)}
  IN  IF hits = {} THEN None
      ELSE Some(b.preKeys[CHOOSE i \in hits : \A j \in hits : i >= j])

\* findPreKey(which): the first pre-key that matches; None stands for the
\* thrown 'no matching pre-key found'.
findPreKey(b, which) ==
  LET hits == {i \in 1 .. Len(b.preKeys) : matches(b.preKeys[i], which)}
  IN  IF hits = {} THEN None
      ELSE Some(b.preKeys[CHOOSE i \in hits : \A j \in hits : i <= j])

\* A faulty variant: push in place of unshift: the new key goes to the end.
push(preKeys, preKey) == Append(preKeys, preKey)

\* this.preKeys.unshift(preKey)
unshift(preKeys, preKey) == <<preKey>> \o preKeys

\* getPublicKeyBundle(): the identity public key with the current pre-key's
\* public key; None stands for the TypeError of reading .publicKey of
\* undefined.
getPublicKeyBundle(b) ==
  IF ~IsSome(b.identityKey) \/ ~IsSome(getCurrentPreKey(b)) THEN None
  ELSE Some([identityKey |-> Some(Get(b.identityKey).publicKey),
             preKey |-> Some(Get(getCurrentPreKey(b)).publicKey)])

\* ------------------------------------------------------------ sharedSecret

\* A PublicKeyBundle: identity public key and pre-key public key, either of
\* which a peer's bundle may lack.
PublicKeyBundle(identityKey, preKey) ==
  [identityKey |-> identityKey, preKey |-> preKey]

\* A faulty variant: only the identity key is looked for.
peerBundleValid_identityOnly(peer) == IsSome(peer.identityKey)

\* if (!peer.identityKey || !peer.preKey)
peerBundleValid(peer) == IsSome(peer.identityKey) /\ IsSome(peer.preKey)

\* A faulty variant: the result of the verification is ignored.
peerSignatureValid_unchecked(peer) == TRUE

\* await peer.identityKey.verifyKey(peer.preKey)
peerSignatureValid(peer) ==
  verifyKey(Get(peer.identityKey), Get(peer.preKey))

\* What a sharedSecret call returns: an outcome ("ok" or the error thrown),
\* the three Diffie-Hellman results, their concatenation, the local pre-key
\* selected and the number of Diffie-Hellman computations made.
Failure(error, dhCalls) ==
  [outcome |-> error, dh |-> <<>>, secret |-> <<>>, preKey |-> None,
   dhCalls |-> dhCalls]

\* A faulty variant: the recipient concatenates in the sender's order.
recipientDH_senderOrder(identityKey, preKey, peer) ==
  <<DH(identityKey.secret, Get(peer.preKey).point),
    DH(preKey.secret, Get(peer.identityKey).point)>>

\* The recipient's branch: dh1 = preKey x peer.identityKey,
\* dh2 = identityKey x peer.preKey.
recipientDH(identityKey, preKey, peer) ==
  <<DH(preKey.secret, Get(peer.identityKey).point),
    DH(identityKey.secret, Get(peer.preKey).point)>>

\* The sender's branch: dh1 = identityKey x peer.preKey,
\* dh2 = preKey x peer.identityKey.
senderDH(identityKey, preKey, peer) ==
  <<DH(identityKey.secret, Get(peer.preKey).point),
    DH(preKey.secret, Get(peer.identityKey).point)>>

\* A faulty variant: dh3 is taken against the peer's identity key.
thirdDH_identity(preKey, peer) ==
  DH(preKey.secret, Get(peer.identityKey).point)

\* dh3 = preKey x peer.preKey
thirdDH(preKey, peer) == DH(preKey.secret, Get(peer.preKey).point)

\* A faulty variant: dh3 is put in front.
concatSecret_dh3First(dh1, dh2, dh3) ==
  ToBytes(dh3) \o ToBytes(dh1) \o ToBytes(dh2)

\* secret = dh1 || dh2 || dh3
concatSecret(dh1, dh2, dh3) == ToBytes(dh1) \o ToBytes(dh2) \o ToBytes(dh3)

Derived(dh12, dh3, preKey) ==
  [outcome |-> "ok", dh |-> <<dh12[1], dh12[2], dh3>>,
   secret |-> concatSecret(dh12[1], dh12[2], dh3),
   preKey |-> Some(preKey.publicKey), dhCalls |-> 3]

\* A faulty variant: the local identity key is looked for before the peer's
\* signature is verified.
sharedSecret_identityFirst(b, peer, recipientPreKey) ==
  IF ~(IsSome(peer.identityKey) /\ IsSome(peer.preKey))
    THEN Failure("TypeError", 0)
  ELSE IF ~IsSome(b.identityKey) THEN Failure("missing identity key", 0)
  ELSE IF ~peerSignatureValid(peer)
    THEN Failure("peer preKey signature invalid", 0)
  ELSE IF IsSome(recipientPreKey)
    THEN LET found == findPreKey(b, Get(recipientPreKey))
         IN  IF ~IsSome(found) THEN Failure("no matching pre-key found", 0)
             ELSE Derived(recipientDH(Get(b.identityKey), Get(found), peer),
                          thirdDH(Get(found), peer), Get(found))
  ELSE LET current == getCurrentPreKey(b)
       IN  IF ~IsSome(current) THEN Failure("TypeError", 1)
           ELSE Derived(senderDH(Get(b.identityKey), Get(current), peer),
                        thirdDH(Get(current), peer), Get(current))

\* sharedSecret(peer, recipientPreKey) from the peer's signature check on,
\* for the bundle b as it is when the awaited verification completes.
sharedSecret(b, peer, recipientPreKey) ==
  \* (not reached after the entry check: verifyKey of undefined)
  IF ~(IsSome(peer.identityKey) /\ IsSome(peer.preKey))
    THEN Failure("TypeError", 0)
  ELSE IF ~peerSignatureValid(peer)
    THEN Failure("peer preKey signature invalid", 0)
  ELSE IF ~IsSome(b.identityKey) THEN Failure("missing identity key", 0)
  ELSE IF IsSome(recipientPreKey)
    THEN LET found == findPreKey(b, Get(recipientPreKey))
         IN  IF ~IsSome(found) THEN Failure("no matching pre-key found", 0)
             ELSE Derived(recipientDH(Get(b.identityKey), Get(found), peer),
                          thirdDH(Get(found), peer), Get(found))
  ELSE LET current == getCurrentPreKey(b)
       IN  \* dh1 is computed, then undefined.sharedSecret is a TypeError
           IF ~IsSome(current) THEN Failure("TypeError", 1)
           ELSE Derived(senderDH(Get(b.identityKey), Get(current), peer),
                        thirdDH(Get(current), peer), Get(current))

\* -------------------------------------------------------- encode and decode

\* How many values the 32 random bytes of walletPreKey may take.
WalletPreKeys == 2

\* Signers (wallets).  A deterministic signer answers a message with one
\* signature, always; the other kind may salt its signature or refuse.
Signers ==
  { [key |-> 1, deterministic |-> TRUE],
    [key |-> 2, deterministic |-> TRUE],
    [key |-> 1, deterministic |-> FALSE] }

Rejected == <<>>

\* wallet.signMessage(message): the hex digits of the signature, or a
\* rejection (the empty answer).
signMessage(wallet, message) ==
  IF wallet.deterministic
  THEN {<<wallet.key, message, 0, 1>>}
  ELSE {<<wallet.key, message, salt, 1>> : salt \in 0 .. 1} \cup {Rejected}

\* hexToBytes: two hex digits make a byte.
hexToBytes(hex) ==
  [i \in 1 .. (Len(hex) \div 2) |-> 16 * hex[2 * i - 1] + hex[2 * i]]

\* A PrivateKey message: secret, public point and, when signed, the
\* signature.
KeyBytes(key) ==
  <<key.secret, key.publicKey.point>>
    \o (IF IsSome(key.publicKey.signature)
        THEN <<1, Get(key.publicKey.signature).by,
               Get(key.publicKey.signature).over>>
        ELSE <<0>>)

\* new PrivateKey(protoKey)
ParseKey(bytes) ==
  [secret |-> bytes[1],
   publicKey |->
     [point |-> bytes[2],
      signature |-> IF bytes[3] = 1
                    THEN Some([by |-> bytes[4], over |-> bytes[5]])
                    ELSE None]]

Field(tag, bytes) == [tag |-> tag, bytes |-> bytes]
FieldsOf(message, tag) == SelectSeq(message, LAMBDA f : f.tag = tag)

\* proto.PrivateKeyBundle.encode({identityKey, preKeys}).finish(): field 1
\* is the identity key, each pre-key is a field 2, in list order.
protoEncodeBundle(identityKey, preKeys) ==
  (IF IsSome(identityKey) THEN <<Field(1, KeyBytes(Get(identityKey)))>>
   ELSE <<>>)
    \o [i \in 1 .. Len(preKeys) |-> Field(2, KeyBytes(preKeys[i]))]

\* proto.PrivateKeyBundle.decode(bytes): the keys still as proto messages.
protoDecodeBundle(message) ==
  LET ids == FieldsOf(message, 1)
      pre == FieldsOf(message, 2)
  IN  [identityKey |-> IF Len(ids) = 0 THEN None ELSE Some(ids[Len(ids)].bytes),
       preKeys |-> [i \in 1 .. Len(pre) |-> pre[i].bytes]]

\* encrypt(bytes, secret): a Ciphertext of the one known variant, an
\* authenticated box only the same secret opens.
encrypt(bytes, secret) ==
  [aes256GcmHkdfSha256 |-> Some([sealedUnder |-> secret, payload |-> bytes])]

\* decrypt(ciphertext, secret): the plaintext, or None when authentication
\* fails.
decrypt(ciphertext, secret) ==
  IF ~IsSome(ciphertext.aes256GcmHkdfSha256) THEN None
  ELSE LET box == Get(ciphertext.aes256GcmHkdfSha256)
       IN  IF box.sealedUnder = secret THEN Some(box.payload) ELSE None

\* proto.EncryptedPrivateKeyBundle.encode({walletPreKey, ciphertext})
protoEncodeEnvelope(walletPreKey, ciphertext) ==
  <<Field(1, walletPreKey), Field(2, ciphertext)>>

\* proto.EncryptedPrivateKeyBundle.decode(bytes)
protoDecodeEnvelope(message) ==
  LET w == FieldsOf(message, 1)
      c == FieldsOf(message, 2)
  IN  [walletPreKey |-> IF Len(w) = 0 THEN None ELSE Some(w[Len(w)].bytes),
       ciphertext |-> IF Len(c) = 0 THEN None ELSE Some(c[Len(c)].bytes)]

\* A faulty variant: the key is taken from walletPreKey, not from the signature.
walletSecret_fromPreKey(walletPreKey, signature) == <<walletPreKey>>

\* secret = hexToBytes(await wallet.signMessage(wPreKey))
walletSecret(walletPreKey, signature) == hexToBytes(signature)

\* A faulty variant: an empty pre-key list is not looked for.
preKeysMissing_unchecked(preKeys) == FALSE

\* this.preKeys.length === 0
preKeysMissing(preKeys) == Len(preKeys) = 0

\* What encode returns: an outcome, the bytes if any, and how often it
\* asked the signer and the random source.
Encoded(outcome, output, signerCalls, randomDraws) ==
  [outcome |-> outcome, output |-> output, signerCalls |-> signerCalls,
   randomDraws |-> randomDraws]

\* encode(wallet), with the random walletPreKey drawn and the signer's
\* answer.
encode(b, wPreKey, answer) ==
  IF preKeysMissing(b.preKeys) THEN Encoded("missing pre-keys", None, 0, 0)
  ELSE IF ~IsSome(b.identityKey)
    THEN Encoded("missing identity key", None, 0, 0)
  ELSE IF answer = Rejected THEN Encoded("signer rejected", None, 1, 1)
  ELSE LET bytes == protoEncodeBundle(b.identityKey, b.preKeys)
           secret == walletSecret(wPreKey, answer)
       IN  Encoded("ok",
                   Some(protoEncodeEnvelope(wPreKey, encrypt(bytes, secret))),
                   1, 1)

\* A faulty variant: any ciphertext field will do, whatever its variant.
ciphertextMissing_anyVariant(encrypted) == ~IsSome(encrypted.ciphertext)

\* !encrypted.ciphertext?.aes256GcmHkdfSha256
ciphertextMissing(encrypted) ==
  \/ ~IsSome(encrypted.ciphertext)
  \/ ~IsSome(Get(encrypted.ciphertext).aes256GcmHkdfSha256)

\* A faulty variant: the pre-keys come back in reverse order.
decodedPreKeys_reversed(protoKeys) ==
  [i \in 1 .. Len(protoKeys) |-> ParseKey(protoKeys[Len(protoKeys) + 1 - i])]

\* bundle.preKeys.map((protoKey) => new PrivateKey(protoKey))
decodedPreKeys(protoKeys) ==
  [i \in 1 .. Len(protoKeys) |-> ParseKey(protoKeys[i])]

\* What decode returns: an outcome, the bundle if any, and how often it
\* asked the signer.
Decoded(outcome, value, signerCalls) ==
  [outcome |-> outcome, value |-> value, signerCalls |-> signerCalls]

\* decode(wallet, bytes) once the signer has answered the walletPreKey.
decodeSigned(encrypted, answer) ==
  IF answer = Rejected THEN Decoded("signer rejected", None, 1)
  ELSE IF ciphertextMissing(encrypted)
    THEN Decoded("missing bundle ciphertext", None, 1)
  ELSE LET secret == walletSecret(Get(encrypted.walletPreKey), answer)
           decrypted == decrypt(Get(encrypted.ciphertext), secret)
       IN  IF ~IsSome(decrypted) THEN Decoded("decrypt failed", None, 1)
           ELSE LET inner == protoDecodeBundle(Get(decrypted))
                IN  IF ~IsSome(inner.identityKey)
                      THEN Decoded("missing identity key", None, 1)
                    ELSE IF Len(inner.preKeys) = 0
                      THEN Decoded("missing pre-keys", None, 1)
                    ELSE Decoded("ok",
                           Some(PrivateKeyBundle(
                                  Some(ParseKey(Get(inner.identityKey))),
                                  decodedPreKeys(inner.preKeys))),
                           1)

\* ------------------------------------------------------------------- state

VARIABLES
  status,      \* per name: "none", "generating" (inside generate), "ready"
  origin,      \* per name: how the bundle was made: "generate", "constructor"
  bundle,      \* per name: the PrivateKeyBundle object
  pendingAdd,  \* per name: pre-keys of addPreKey calls awaiting signKey
  attest,      \* per name: the signWithWallet call generate started, if any
  batch,       \* per name, where addPreKey calls are followed: the list the
               \* first call in flight found, the keys signed since, and
               \* whether calls overlapped
  seed,        \* the entropy source's seed
  ssCall,      \* the sharedSecret call awaiting verifyKey, if any, with the
               \* pre-key list as it was when the call was made
  sent,        \* the last secret a sender derived, with its message header
  rotated,     \* the addressee's addPreKey calls completed since `sent`
  stored,      \* the bytes the last successful encode returned
  last         \* the last step taken and what it returned

lifeVars == <<status, origin, bundle, pendingAdd, attest>>
agreeVars == <<ssCall, sent, rotated>>
vars ==
  <<status, origin, bundle, pendingAdd, attest, batch, seed, ssCall, sent,
    rotated, stored, last>>

NoBundle == PrivateKeyBundle(None, <<>>)
NotRotated == [count |-> 0, key |-> None]

\* The addPreKey calls made since none was in flight: they began on the
\* list `base`, the keys (secrets) `done` were signed, and `overlapped` says
\* whether two calls were ever suspended at once.
Batch(base, done, overlapped) ==
  [base |-> base, done |-> done, overlapped |-> overlapped]
NoBatch == Batch(<<>>, {}, FALSE)

SeqSecrets(keys) == {keys[i].secret : i \in 1 .. Len(keys)}

\* The scalars held by some key of some bundle.
Used ==
  UNION {SeqSecrets(bundle[n].identityKey) \cup SeqSecrets(bundle[n].preKeys)
           \cup SeqSecrets(pendingAdd[n]) : n \in Names}

\* The entropy source: the k-th scalar of the stream a seed gives.  A seed is
\* coprime to the group's order, so the stream runs through every scalar.
Seeds == {<<1, 5, 7, 11>>[i] : i \in 1 .. EntropySeeds}
Stream(k) == ((seed * k) % (Group.p - 1)) + 1

\* The stream's positions are dealt to the bundles in turn.
Slot(n) == IF n = "A" THEN 0 ELSE 1

\* The random scalar of a new key of bundle n: one no key holds (two
\* generated keys never collide), the first such one dealt to n.
Entropy(n, used) ==
  LET free == {k \in 0 .. (Group.p - 2) :
                 k % 2 = Slot(n) /\ Stream(k) \notin used}
  IN  Stream(CHOOSE k \in free : \A j \in free : k <= j)

\* Another bundle may enter generate or addPreKey beside bundle n.
MayStart(n) ==
  Cardinality({m \in Names \ {n} : pendingAdd[m] # <<>>}) < MaxBusy

Init ==
  /\ status = [n \in Names |-> "none"]
  /\ origin = [n \in Names |-> "none"]
  /\ bundle = [n \in Names |-> NoBundle]
  /\ pendingAdd = [n \in Names |-> <<>>]
  /\ attest = [n \in Names |-> None]
  /\ batch = [n \in Names |-> NoBatch]
  /\ seed \in Seeds
  /\ ssCall = None
  /\ sent = None
  /\ rotated = NotRotated
  /\ stored = None
  /\ last = [op |-> "init", who |-> "", outcome |-> "ok"]

\* ------------------------------------------------- generate and the constructor

\* new PrivateKeyBundle(identityKey): no pre-keys; identityKey may be
\* undefined at run time.
Construct(n) ==
  /\ status[n] = "none"
  /\ \E id \in {None, Some(PrivateKeyOf(Entropy(n, Used)))} :
       bundle' = [bundle EXCEPT ![n] = PrivateKeyBundle(id, <<>>)]
  /\ status' = [status EXCEPT ![n] = "ready"]
  /\ origin' = [origin EXCEPT ![n] = "constructor"]
  /\ last' = [op |-> "constructor", who |-> n, outcome |-> "ok"]
  /\ UNCHANGED <<stored, pendingAdd, attest, seed, agreeVars>>

\* new PrivateKeyBundle(identityKey, preKeys), as decode calls it on what
\* storage holds: here a list that holds one pre-key twice, the copy in
\* front signed and the copy behind it not.
Restore(n) ==
  /\ status[n] = "none"
  /\ LET id == PrivateKeyOf(Entropy(n, Used))
         key == PrivateKeyOf(Entropy(n, Used \cup {id.secret}))
     IN  bundle' = [bundle EXCEPT
                      ![n] = PrivateKeyBundle(Some(id),
                                              <<signKey(id, key), key>>)]
  /\ status' = [status EXCEPT ![n] = "ready"]
  /\ origin' = [origin EXCEPT ![n] = "constructor"]
  /\ last' = [op |-> "constructor", who |-> n, outcome |-> "ok"]
  /\ UNCHANGED <<stored, pendingAdd, attest, seed, agreeVars>>

\* generate(): the identity key is generated, the bundle constructed and
\* addPreKey entered: it generates the pre-key and suspends at signKey.
GenerateBegin(n) ==
  /\ status[n] = "none"
  /\ MayStart(n)
  /\ LET s1 == Entropy(n, Used)
         s2 == Entropy(n, Used \cup {s1})
     IN  /\ bundle' = [bundle EXCEPT
                         ![n] = PrivateKeyBundle(Some(PrivateKeyOf(s1)), <<>>)]
         /\ pendingAdd' = [pendingAdd EXCEPT ![n] = <<PrivateKeyOf(s2)>>]
  /\ status' = [status EXCEPT ![n] = "generating"]
  /\ origin' = [origin EXCEPT ![n] = "generate"]
  /\ last' = [op |-> "generate", who |-> n, outcome |-> "pending"]
  /\ UNCHANGED <<stored, attest, seed, agreeVars>>

\* The address a wallet's signature names: no point of the group.
WalletAddress(wallet) == Group.p + wallet.key

\* PublicKey.signWithWallet(wallet) once the wallet has answered: the
\* wallet's signature over the key is attached to it.
signWithWallet(key, wallet) ==
  [key EXCEPT !.publicKey.signature =
                 Some([by |-> WalletAddress(wallet),
                       over |-> key.publicKey.point])]

\* generate(wallet): as generate(), but before the bundle is constructed
\* identityKey.publicKey.signWithWallet(wallet) is called; the promise it
\* returns is not awaited, so the wallet is left to answer when it does.
GenerateWithWallet(n, wallet) ==
  /\ status[n] = "none"
  /\ MayStart(n)
  /\ LET s1 == Entropy(n, Used)
         s2 == Entropy(n, Used \cup {s1})
     IN  /\ bundle' = [bundle EXCEPT
                         ![n] = PrivateKeyBundle(Some(PrivateKeyOf(s1)), <<>>)]
         /\ pendingAdd' = [pendingAdd EXCEPT ![n] = <<PrivateKeyOf(s2)>>]
  /\ attest' = [attest EXCEPT ![n] = Some([wallet |-> wallet,
                                           state |-> "pending"])]
  /\ status' = [status EXCEPT ![n] = "generating"]
  /\ origin' = [origin EXCEPT ![n] = "generate"]
  /\ last' = [op |-> "generate", who |-> n, outcome |-> "pending"]
  /\ UNCHANGED <<stored, seed, agreeVars>>

\* The wallet answers: signWithWallet attaches the signature to the identity
\* key's public half, inside generate or after generate has returned.
AttestationSigned(n) ==
  /\ IsSome(attest[n])
  /\ Get(attest[n]).state = "pending"
  /\ bundle' = [bundle EXCEPT
                  ![n].identityKey =
                     Some(signWithWallet(Get(@), Get(attest[n]).wallet))]
  /\ attest' = [attest EXCEPT ![n] = Some([Get(@) EXCEPT !.state = "attached"])]
  /\ last' = [op |-> "signWithWallet", who |-> n, outcome |-> "ok"]
  /\ UNCHANGED <<stored, status, origin, pendingAdd, seed, agreeVars>>

\* The wallet refuses: the promise of signWithWallet rejects, which nothing
\* awaits or catches; generate goes on, or has returned.
AttestationFails(n) ==
  /\ IsSome(attest[n])
  /\ Get(attest[n]).state = "pending"
  /\ attest' = [attest EXCEPT ![n] = Some([Get(@) EXCEPT !.state = "failed"])]
  /\ last' = [op |-> "signWithWallet", who |-> n,
              outcome |-> "unhandled rejection"]
  /\ UNCHANGED <<stored, status, origin, bundle, pendingAdd, seed, agreeVars>>

\* ---------------------------------------------------------------- addPreKey

\* addPreKey() up to its await: a pre-key is generated and signKey entered.
\* With no identity key, this.identityKey.signKey is a TypeError.
AddPreKeyBegin(n) ==
  /\ status[n] = "ready"
  /\ MayStart(n)
  /\ Len(bundle[n].preKeys) + Len(pendingAdd[n]) < MaxPreKeys
  /\ Len(pendingAdd[n]) < MaxPending
  /\ IF IsSome(bundle[n].identityKey)
     THEN /\ pendingAdd' = [pendingAdd EXCEPT
                              ![n] = Append(@, PrivateKeyOf(Entropy(n, Used)))]
          /\ last' = [op |-> "addPreKey", who |-> n, outcome |-> "pending"]
     ELSE /\ pendingAdd' = pendingAdd
          /\ last' = [op |-> "addPreKey", who |-> n, outcome |-> "TypeError"]
  /\ UNCHANGED <<stored, status, origin, bundle, attest, seed, agreeVars>>

RemoveAt(seq, i) == SubSeq(seq, 1, i - 1) \o SubSeq(seq, i + 1, Len(seq))

\* A faulty variant: the key is put into the list without the signature.
AddPreKeySigned_unsigned(n, i) ==
  /\ status[n] \in {"generating", "ready"}
  /\ i \in 1 .. Len(pendingAdd[n])
  /\ LET preKey == pendingAdd[n][i]
     IN  /\ bundle' = [bundle EXCEPT
                         ![n].preKeys = unshift(bundle[n].preKeys, preKey)]
         /\ last' = [op |-> IF status[n] = "generating" THEN "generate"
                             ELSE "addPreKey",
                     who |-> n, outcome |-> "ok",
                     before |-> bundle[n].preKeys, key |-> preKey]
         /\ rotated' = IF IsSome(sent) /\ Get(sent).from # n
                       THEN [count |-> rotated.count + 1, key |-> Some(preKey)]
                       ELSE rotated
  /\ pendingAdd' = [pendingAdd EXCEPT ![n] = RemoveAt(@, i)]
  /\ status' = [status EXCEPT ![n] = "ready"]
  /\ UNCHANGED <<stored, origin, attest, seed, ssCall, sent>>

\* A faulty variant: the list is read before the await and written after it:
\* the key is put in front of the list as the calls in flight found it.
AddPreKeySigned_lostUpdate(n, i) ==
  /\ status[n] \in {"generating", "ready"}
  /\ i \in 1 .. Len(pendingAdd[n])
  /\ LET preKey == signKey(Get(bundle[n].identityKey), pendingAdd[n][i])
     IN  /\ bundle' = [bundle EXCEPT
                         ![n].preKeys = unshift(batch[n].base, preKey)]
         /\ last' = [op |-> IF status[n] = "generating" THEN "generate"
                             ELSE "addPreKey",
                     who |-> n, outcome |-> "ok",
                     before |-> bundle[n].preKeys, key |-> preKey]
         /\ rotated' = IF IsSome(sent) /\ Get(sent).from # n
                       THEN [count |-> rotated.count + 1, key |-> Some(preKey)]
                       ELSE rotated
  /\ pendingAdd' = [pendingAdd EXCEPT ![n] = RemoveAt(@, i)]
  /\ status' = [status EXCEPT ![n] = "ready"]
  /\ UNCHANGED <<stored, origin, attest, seed, ssCall, sent>>

\* addPreKey() after its await: the pre-key now carries the identity key's
\* signature and is put at the front of the list.  Inside generate, the
\* bundle is then returned.
AddPreKeySigned(n, i) ==
  /\ status[n] \in {"generating", "ready"}
  /\ i \in 1 .. Len(pendingAdd[n])
  /\ LET preKey == signKey(Get(bundle[n].identityKey), pendingAdd[n][i])
     IN  /\ bundle' = [bundle EXCEPT
                         ![n].preKeys = unshift(bundle[n].preKeys, preKey)]
         /\ last' = [op |-> IF status[n] = "generating" THEN "generate"
                             ELSE "addPreKey",
                     who |-> n, outcome |-> "ok",
                     before |-> bundle[n].preKeys, key |-> preKey]
         /\ rotated' = IF IsSome(sent) /\ Get(sent).from # n
                       THEN [count |-> rotated.count + 1, key |-> Some(preKey)]
                       ELSE rotated
  /\ pendingAdd' = [pendingAdd EXCEPT ![n] = RemoveAt(@, i)]
  /\ status' = [status EXCEPT ![n] = "ready"]
  /\ UNCHANGED <<stored, origin, attest, seed, ssCall, sent>>

\* A faulty variant: the new key is put into the list before it is signed,
\* and stays there when signing fails.
AddPreKeySignFails_keyInserted(n, i) ==
  /\ status[n] \in {"generating", "ready"}
  /\ i \in 1 .. Len(pendingAdd[n])
  /\ pendingAdd' = [pendingAdd EXCEPT ![n] = RemoveAt(@, i)]
  /\ bundle' = [bundle EXCEPT
                  ![n].preKeys = unshift(bundle[n].preKeys, pendingAdd[n][i])]
  /\ status' = [status EXCEPT ![n] = "ready"]
  /\ last' = [op |-> "addPreKey", who |-> n, outcome |-> "sign failed",
              before |-> bundle[n].preKeys, key |-> pendingAdd[n][i]]
  /\ UNCHANGED <<stored, origin, attest, seed, agreeVars>>

\* The signing step fails: addPreKey rejects before the unshift.  Inside
\* generate the rejection propagates and no bundle is returned.
AddPreKeySignFails(n, i) ==
  /\ status[n] \in {"generating", "ready"}
  /\ i \in 1 .. Len(pendingAdd[n])
  /\ pendingAdd' = [pendingAdd EXCEPT ![n] = RemoveAt(@, i)]
  /\ IF status[n] = "generating"
     THEN /\ status' = [status EXCEPT ![n] = "none"]
          /\ origin' = [origin EXCEPT ![n] = "none"]
          /\ bundle' = [bundle EXCEPT ![n] = NoBundle]
          /\ attest' = [attest EXCEPT ![n] = None]
          /\ last' = [op |-> "generate", who |-> n, outcome |-> "sign failed"]
     ELSE /\ UNCHANGED <<stored, status, origin, bundle, attest>>
          /\ last' = [op |-> "addPreKey", who |-> n,
                      outcome |-> "sign failed",
                      before |-> bundle[n].preKeys, key |-> pendingAdd[n][i]]
  /\ UNCHANGED <<stored, seed, agreeVars>>

\* ------------------------------------------------------- sharedSecret calls

\* One unit of a public key changed (its signature, if any, kept).
AlterPoint(pub) == [pub EXCEPT !.point = (pub.point % (Group.p - 1)) + 1]

\* The peer bundles a caller may be handed in place of the bundle pb: pb
\* itself, pb lacking a field, pb with its pre-key or identity key altered
\* after signing, pb with its pre-key's signature removed.
PeerInputs(pb) ==
  { pb,
    [pb EXCEPT !.identityKey = None],
    [pb EXCEPT !.preKey = None],
    [pb EXCEPT !.preKey = Some(AlterPoint(Get(pb.preKey)))],
    [pb EXCEPT !.identityKey = Some(AlterPoint(Get(pb.identityKey)))],
    [pb EXCEPT !.preKey = Some([Get(pb.preKey) EXCEPT !.signature = None])] }

\* sharedSecret(peer, recipientPreKey) up to its await: a peer bundle that
\* lacks a key is rejected at once, otherwise the call suspends at verifyKey.
SharedSecretCall(n, peer, recipientPreKey) ==
  /\ status[n] = "ready"
  /\ ssCall = None
  /\ IF peerBundleValid(peer)
     THEN /\ ssCall' = Some([who |-> n, peer |-> peer,
                             recipientPreKey |-> recipientPreKey,
                             preKeysAtCall |-> bundle[n].preKeys])
          /\ last' = [op |-> "sharedSecret", who |-> n, outcome |-> "pending"]
     ELSE /\ ssCall' = None
          /\ last' = [op |-> "sharedSecret", who |-> n,
                      outcome |-> "invalid peer key bundle",
                      peer |-> peer, recipientPreKey |-> recipientPreKey,
                      verified |-> FALSE,
                      result |-> Failure("invalid peer key bundle", 0)]
  /\ UNCHANGED <<stored, lifeVars, seed, sent, rotated>>

\* The header of the message a sender encrypts under its secret: its own
\* public bundle with the pre-key it used, and the recipient's pre-key it
\* encrypted to; with it, what the sender derived.
Message(n, b, peer, result) ==
  [from |-> n,
   sender |-> PublicKeyBundle(Some(Get(b.identityKey).publicKey), result.preKey),
   recipientPreKey |-> Get(peer.preKey),
   peer |-> peer, dh |-> result.dh, secret |-> result.secret]

\* A faulty variant: the local pre-key is taken from the list as it was when
\* the call was made, before the await.
SharedSecretResume_keyAtCall ==
  /\ IsSome(ssCall)
  /\ LET c == Get(ssCall)
         atCall == [bundle[c.who] EXCEPT !.preKeys = c.preKeysAtCall]
         result == sharedSecret(atCall, c.peer, c.recipientPreKey)
         sends == ~IsSome(c.recipientPreKey) /\ result.outcome = "ok"
     IN  /\ last' = [op |-> "sharedSecret", who |-> c.who,
                     outcome |-> result.outcome,
                     peer |-> c.peer, recipientPreKey |-> c.recipientPreKey,
                     preKeysAtCall |-> c.preKeysAtCall,
                     verified |-> TRUE, result |-> result]
         /\ sent' = IF sends
                    THEN Some(Message(c.who, atCall, c.peer, result))
                    ELSE sent
         /\ rotated' = IF sends THEN NotRotated ELSE rotated
  /\ ssCall' = None
  /\ UNCHANGED <<stored, lifeVars, seed>>

\* sharedSecret after its await, on the bundle as it is now.
SharedSecretResume ==
  /\ IsSome(ssCall)
  /\ LET c == Get(ssCall)
         result == sharedSecret(bundle[c.who], c.peer, c.recipientPreKey)
         sends == ~IsSome(c.recipientPreKey) /\ result.outcome = "ok"
     IN  /\ last' = [op |-> "sharedSecret", who |-> c.who,
                     outcome |-> result.outcome,
                     peer |-> c.peer, recipientPreKey |-> c.recipientPreKey,
                     preKeysAtCall |-> c.preKeysAtCall,
                     verified |-> TRUE, result |-> result]
         /\ sent' = IF sends
                    THEN Some(Message(c.who, bundle[c.who], c.peer, result))
                    ELSE sent
         /\ rotated' = IF sends THEN NotRotated ELSE rotated
  /\ ssCall' = None
  /\ UNCHANGED <<stored, lifeVars, seed>>

\* A sender's call: against what the peer m advertises now.
SenderCall(n) ==
  \E m \in Names \ {n} :
    /\ status[m] = "ready"
    /\ IsSome(getPublicKeyBundle(bundle[m]))
    /\ \E peer \in PeerInputs(Get(getPublicKeyBundle(bundle[m]))) :
         SharedSecretCall(n, peer, None)

\* A recipient's call: on the header of the message sent, naming as
\* recipientPreKey either pre-key the header carries.
RecipientCall(n) ==
  /\ IsSome(sent)
  /\ Get(sent).from # n
  /\ \E peer \in PeerInputs(Get(sent).sender) :
       \E recipientPreKey \in {Some(Get(sent).recipientPreKey),
                               Get(sent).sender.preKey} :
         SharedSecretCall(n, peer, recipientPreKey)

\* The values a caller may pass as recipientPreKey: none (the sender's
\* role), any pre-key of its own list, or the pre-key of the peer's bundle,
\* which is none of its own.
RecipientPreKeys(n, pb) ==
  {None, pb.preKey}
    \cup {Some(bundle[n].preKeys[i].publicKey) :
            i \in 1 .. Len(bundle[n].preKeys)}

\* A call by any bundle in use, with or without identity key and pre-keys,
\* in either role, on what a peer m advertises or a damaged copy of it.
AnyCall(n) ==
  \E m \in Names \ {n} :
    /\ status[m] = "ready"
    /\ IsSome(getPublicKeyBundle(bundle[m]))
    /\ LET pb == Get(getPublicKeyBundle(bundle[m]))
       IN  \E peer \in PeerInputs(pb) :
             \E recipientPreKey \in RecipientPreKeys(n, pb) :
               SharedSecretCall(n, peer, recipientPreKey)

\* ---------------------------------------------------- encode and decode calls

\* encode(wallet): reads the bundle, draws walletPreKey, asks the signer and
\* returns the bytes, which are then what is stored.
Encode(n, wallet) ==
  /\ status[n] = "ready"
  /\ \E wPreKey \in 1 .. WalletPreKeys :
       \E answer \in signMessage(wallet, wPreKey) :
         LET result == encode(bundle[n], wPreKey, answer)
         IN  /\ last' = [op |-> "encode", who |-> n, outcome |-> result.outcome,
                         wallet |-> wallet, result |-> result]
             /\ stored' = IF result.outcome = "ok"
                          THEN Some([bytes |-> Get(result.output),
                                     wallet |-> wallet, signature |-> answer,
                                     bundle |-> bundle[n]])
                          ELSE stored
  /\ UNCHANGED <<lifeVars, seed, agreeVars>>

\* The bytes decode may be handed in place of the stored bytes: these, or
\* these without a field, or with a ciphertext of no known variant.
Damages == {"intact", "no walletPreKey", "no ciphertext", "unknown variant"}

DecodeInput(damage, bytes) ==
  CASE damage = "intact" -> bytes
    [] damage = "no walletPreKey" -> SelectSeq(bytes, LAMBDA f : f.tag # 1)
    [] damage = "no ciphertext" -> SelectSeq(bytes, LAMBDA f : f.tag # 2)
    [] damage = "unknown variant" ->
         [i \in 1 .. Len(bytes) |->
            IF bytes[i].tag = 2
            THEN Field(2, [aes256GcmHkdfSha256 |-> None])
            ELSE bytes[i]]

\* decode(wallet, bytes): an envelope without walletPreKey is rejected
\* before the signer is asked.
Decode(wallet, bytes) ==
  /\ LET encrypted == protoDecodeEnvelope(bytes)
     IN  IF ~IsSome(encrypted.walletPreKey)
         THEN last' = [op |-> "decode", who |-> "", wallet |-> wallet,
                       outcome |-> "missing wallet pre-key",
                       bytes |-> bytes, answer |-> Rejected,
                       result |-> Decoded("missing wallet pre-key", None, 0)]
         ELSE \E answer \in signMessage(wallet, Get(encrypted.walletPreKey)) :
                LET result == decodeSigned(encrypted, answer)
                IN  last' = [op |-> "decode", who |-> "", wallet |-> wallet,
                             outcome |-> result.outcome,
                             bytes |-> bytes, answer |-> answer,
                             result |-> result]
  /\ UNCHANGED <<lifeVars, seed, agreeVars, stored>>

\* ---------------------------------------------------------- specifications

\* The life of the bundles: the constructor, generate and addPreKey, whose
\* calls on one bundle may overlap and whose signing step may fail.
Next ==
  /\ \/ \E n \in Names : Construct(n)
     \/ \E n \in Names : GenerateBegin(n)
     \/ \E n \in Names : AddPreKeyBegin(n)
     \/ \E n \in Names : \E i \in 1 .. MaxPending : AddPreKeySigned(n, i)
     \/ \E n \in Names : \E i \in 1 .. MaxPending : AddPreKeySignFails(n, i)
  /\ UNCHANGED batch

Spec == Init /\ [][Next]_vars

\* What a step does to the record of the addPreKey calls of each bundle: a
\* call that begins while none is in flight opens a record on the list it
\* finds, a call that begins while another is suspended marks the record,
\* and a call that ends with its key signed adds the key to the record.
TrackBatch ==
  batch' =
    [n \in Names |->
       IF Len(pendingAdd'[n]) > Len(pendingAdd[n])
       THEN IF pendingAdd[n] = <<>>
            THEN Batch(bundle'[n].preKeys, {}, FALSE)
            ELSE Batch(batch[n].base, batch[n].done, TRUE)
       ELSE IF Len(pendingAdd'[n]) < Len(pendingAdd[n]) /\ last'.outcome = "ok"
            THEN Batch(batch[n].base,
                       batch[n].done \cup (SeqSecrets(pendingAdd[n])
                                             \ SeqSecrets(pendingAdd'[n])),
                       batch[n].overlapped)
            ELSE batch[n]]

\* The addPreKey calls of one bundle, overlapping freely, next to a peer's
\* generate: the calls are followed from the first that begins while none
\* is in flight.
Adders == {"A"}

NextOverlap ==
  /\ \/ \E n \in Adders : Construct(n)
     \/ \E n \in Names : GenerateBegin(n)
     \/ \E n \in Adders : AddPreKeyBegin(n)
     \/ \E n \in Names : \E i \in 1 .. MaxPending : AddPreKeySigned(n, i)
     \/ \E n \in Adders : \E i \in 1 .. MaxPending : AddPreKeySignFails(n, i)
  /\ TrackBatch

SpecOverlap == Init /\ [][NextOverlap]_vars

\* generate with or without a wallet: the wallet answers or refuses at any
\* time after it was asked; the identity key's signing of a pre-key may fail
\* too.  The owner of a bundle serialises its addPreKey calls.
NextGenerate ==
  /\ \/ \E n \in Names : GenerateBegin(n)
     \/ \E n \in Names : \E wallet \in Signers : GenerateWithWallet(n, wallet)
     \/ \E n \in Names : AttestationSigned(n)
     \/ \E n \in Names : AttestationFails(n)
     \/ \E n \in Names : pendingAdd[n] = <<>> /\ AddPreKeyBegin(n)
     \/ \E n \in Names : \E i \in 1 .. MaxPending : AddPreKeySigned(n, i)
     \/ \E n \in Names : \E i \in 1 .. MaxPending : AddPreKeySignFails(n, i)
  /\ UNCHANGED batch

SpecGenerate == Init /\ [][NextGenerate]_vars

\* Key agreement between generated bundles that rotate their pre-keys.  The
\* owner of a bundle serialises its addPreKey calls; a sharedSecret call may
\* be suspended while one runs.
NextAgree ==
  /\ \/ \E n \in Names : GenerateBegin(n)
     \/ \E n \in Names : pendingAdd[n] = <<>> /\ AddPreKeyBegin(n)
     \/ \E n \in Names : \E i \in 1 .. MaxPending : AddPreKeySigned(n, i)
     \/ \E n \in Names : SenderCall(n)
     \/ \E n \in Names : RecipientCall(n)
     \/ SharedSecretResume
  /\ UNCHANGED batch

SpecAgree == Init /\ [][NextAgree]_vars

\* sharedSecret calls of every kind by one bundle, made by generate or by
\* the constructor and rotating its pre-keys one addPreKey at a time, on
\* what the other, made by generate, advertises.
Callers == {"A"}

NextCalls ==
  /\ \/ \E n \in Callers : Construct(n)
     \/ \E n \in Callers : Restore(n)
     \/ \E n \in Names : GenerateBegin(n)
     \/ \E n \in Callers : pendingAdd[n] = <<>> /\ AddPreKeyBegin(n)
     \/ \E n \in Names : \E i \in 1 .. MaxPending : AddPreKeySigned(n, i)
     \/ \E n \in Callers : AnyCall(n)
     \/ SharedSecretResume
  /\ UNCHANGED batch

SpecCalls == Init /\ [][NextCalls]_vars

\* The use of a bundle made by generate with a wallet: it rotates its
\* pre-keys and calls sharedSecret on what the other bundle advertises, or
\* encodes itself, while the wallet asked at generate answers when it does.
\* (sharedSecret and encode only read the bundle; a run has the bundle used
\* for key agreement or for storage.)
NextUse ==
  /\ \/ \E n \in Names \ Callers : GenerateBegin(n)
     \/ \E n \in Callers : \E wallet \in Signers : GenerateWithWallet(n, wallet)
     \/ \E n \in Callers : AttestationSigned(n)
     \/ \E n \in Callers : AttestationFails(n)
     \/ \E n \in Callers : pendingAdd[n] = <<>> /\ AddPreKeyBegin(n)
     \/ \E n \in Names : \E i \in 1 .. MaxPending : AddPreKeySigned(n, i)
     \/ \E n \in Callers : stored = None /\ AnyCall(n)
     \/ SharedSecretResume
     \/ \E n \in Callers : \E wallet \in Signers :
          sent = None /\ ssCall = None /\ Encode(n, wallet)
  /\ UNCHANGED batch

SpecUse == Init /\ [][NextUse]_vars

\* The storage of one bundle, made by generate or by the constructor, whose
\* owner serialises its addPreKey calls.
StoreNames == {"A"}

NextStore ==
  /\ \/ \E n \in StoreNames : Construct(n)
     \/ \E n \in StoreNames : GenerateBegin(n)
     \/ \E n \in StoreNames : pendingAdd[n] = <<>> /\ AddPreKeyBegin(n)
     \/ \E n \in StoreNames : \E i \in 1 .. MaxPending : AddPreKeySigned(n, i)
     \/ \E n \in StoreNames : \E wallet \in Signers : Encode(n, wallet)
     \/ /\ IsSome(stored)
        /\ \E wallet \in Signers : \E damage \in Damages :
             Decode(wallet, DecodeInput(damage, Get(stored).bytes))
  /\ UNCHANGED batch

SpecStore == Init /\ [][NextStore]_vars

\* ------------------------------------------------------------------ claims

\* The last step was a sharedSecret call that returned or threw.
Returned ==
  last.op = "sharedSecret" /\ last.outcome # "pending"

\* The last step was the recipient's call on the message sent: the peer
\* bundle is the sender's bundle of the header.
Answered ==
  /\ Returned
  /\ IsSome(sent)
  /\ last.who # Get(sent).from
  /\ IsSome(last.recipientPreKey)
  /\ last.peer = Get(sent).sender

\* Neither party has added a pre-key since the bundles were taken: the
\* header's bundles are A.getPublicKeyBundle() and B.getPublicKeyBundle().
BothCurrent ==
  /\ getPublicKeyBundle(bundle[Get(sent).from]) = Some(Get(sent).sender)
  /\ getPublicKeyBundle(bundle[last.who]) = Some(Get(sent).peer)

\* C1 as stated: the sender's secret A.sharedSecret(PB) and the recipient's
\* B.sharedSecret(PA, A.getCurrentPreKey().publicKey), which names the
\* SENDER's current pre-key, both succeed and are equal.
C1_NamingSendersPreKey ==
  ( /\ Answered
    /\ BothCurrent
    /\ last.recipientPreKey =
         Some(Get(getCurrentPreKey(bundle[Get(sent).from])).publicKey) )
  => /\ last.outcome = "ok"
     /\ last.result.secret = Get(sent).secret

\* C1 amended: a sender's call against the peer's current public bundle
\* succeeds, and the recipient's call B.sharedSecret(PA, PB.preKey), which
\* names the RECIPIENT's own pre-key of the bundle the sender used, succeeds
\* and returns the same bytes.
C1_Commutativity ==
  /\ ( /\ Returned
       /\ ~IsSome(last.recipientPreKey)
       /\ \E m \in Names \ {last.who} :
            getPublicKeyBundle(bundle[m]) = Some(last.peer) )
     => last.outcome = "ok"
  /\ ( /\ Answered
       /\ BothCurrent
       /\ last.recipientPreKey =
            Some(Get(getCurrentPreKey(bundle[last.who])).publicKey) )
     => /\ last.outcome = "ok"
        /\ Len(last.result.secret) = 6
        /\ last.result.secret = Get(sent).secret

C1_Witness ==
  /\ Answered
  /\ BothCurrent
  /\ last.recipientPreKey =
       Some(Get(getCurrentPreKey(bundle[last.who])).publicKey)
  /\ last.outcome = "ok"

\* C2: when the recipient calls with the sender's bundle (carrying the
\* pre-key the sender used) and names its own pre-key that the sender used,
\* its dh1, dh2 and dh3 equal the sender's position by position.
C2_PositionByPosition ==
  (Answered /\ last.recipientPreKey = Some(Get(sent).recipientPreKey))
  => /\ last.outcome = "ok"
     /\ Len(last.result.dh) = 3
     /\ \A i \in 1 .. 3 : last.result.dh[i] = Get(sent).dh[i]

\* The three results are not all the same number, so the positions matter.
C2_Witness ==
  /\ Answered
  /\ last.recipientPreKey = Some(Get(sent).recipientPreKey)
  /\ last.outcome = "ok"
  /\ Cardinality({last.result.dh[i] : i \in 1 .. 3}) = 3

\* C3: once the addressee has completed n >= 1 addPreKey calls after the
\* sender derived its secret, the addressee's call naming the old pre-key
\* still finds it and returns the sender's secret, while its current
\* pre-key is the one added last, not the old one.
C3_RotationSurvivable ==
  ( /\ Answered
    /\ last.recipientPreKey = Some(Get(sent).recipientPreKey)
    /\ rotated.count >= 1 )
  => /\ last.outcome = "ok"
     /\ last.result.preKey = Some(Get(sent).recipientPreKey)
     /\ last.result.secret = Get(sent).secret
     /\ IsSome(rotated.key)
     /\ getCurrentPreKey(bundle[last.who]) = rotated.key
     /\ Get(rotated.key).publicKey # Get(sent).recipientPreKey

C3_Witness ==
  /\ Answered
  /\ last.recipientPreKey = Some(Get(sent).recipientPreKey)
  /\ rotated.count = 2
  /\ last.outcome = "ok"

\* A bundle that generate has returned.
Generated(n) == status[n] = "ready" /\ origin[n] = "generate"

\* The pre-keys of a bundle in use changed in this step.
PreKeysChange(n) ==
  /\ status[n] = "ready"
  /\ status'[n] = "ready"
  /\ bundle'[n].preKeys # bundle[n].preKeys

\* C4: generate returns a bundle with exactly one pre-key; a pre-key list
\* changes only by a successful addPreKey, which makes it one longer, with
\* the newly generated key at index 0 and the keys present before behind it
\* in their order; so a generated bundle's list is never empty and never
\* loses a key.
C4_OneThenPrepend ==
  /\ [](\A n \in Names : Generated(n) => Len(bundle[n].preKeys) >= 1)
  /\ []((last.op = "generate" /\ last.outcome = "ok")
          => Len(bundle[last.who].preKeys) = 1)
  /\ [][ \A n \in Names :
           /\ PreKeysChange(n)
                => /\ last'.op = "addPreKey" /\ last'.outcome = "ok"
                   /\ last'.who = n
           /\ (last'.op = "addPreKey" /\ last'.outcome = "ok" /\ last'.who = n)
                => /\ Len(bundle'[n].preKeys) = Len(bundle[n].preKeys) + 1
                   /\ Head(bundle'[n].preKeys) = last'.key
                   /\ last'.key.secret \notin SeqSecrets(bundle[n].preKeys)
                   /\ Tail(bundle'[n].preKeys) = bundle[n].preKeys ]_vars

\* A third pre-key has been put in front of two earlier ones.
C4_Witness ==
  /\ last.op = "addPreKey"
  /\ last.outcome = "ok"
  /\ Generated(last.who)
  /\ Len(last.before) = 2
  /\ bundle[last.who].preKeys = <<last.key>> \o last.before

\* The peer bundle has both keys but its pre-key's signature does not verify
\* under its identity key.
BadlySigned(peer) ==
  /\ IsSome(peer.identityKey)
  /\ IsSome(peer.preKey)
  /\ ~verifyKey(Get(peer.identityKey), Get(peer.preKey))

\* C5: a call whose peer bundle carries a pre-key that does not verify under
\* the peer's identity key throws 'peer preKey signature invalid' and
\* returns no secret, as sender and as recipient.
C5_SignatureIntegrity ==
  (Returned /\ BadlySigned(last.peer))
  => /\ last.outcome = "peer preKey signature invalid"
     /\ last.result.secret = <<>>
     /\ last.result.dhCalls = 0

\* A recipient is handed the sender's bundle with the pre-key altered after
\* signing.
C5_Witness ==
  /\ Returned
  /\ BadlySigned(last.peer)
  /\ IsSome(last.recipientPreKey)
  /\ last.peer = [Get(sent).sender EXCEPT
                    !.preKey = Some(AlterPoint(Get(Get(sent).sender.preKey)))]
  /\ last.outcome = "peer preKey signature invalid"

\* C6: a call whose peer bundle lacks its identity key or its pre-key throws
\* 'invalid peer key bundle' at once: no verification is awaited and no
\* Diffie-Hellman computation made.
C6_MissingPeerKey ==
  /\ (Returned /\ ~(IsSome(last.peer.identityKey) /\ IsSome(last.peer.preKey)))
     => /\ last.outcome = "invalid peer key bundle"
        /\ ~last.verified
        /\ last.result.dhCalls = 0
        /\ last.result.secret = <<>>
  /\ IsSome(ssCall)
     => /\ IsSome(Get(ssCall).peer.identityKey)
        /\ IsSome(Get(ssCall).peer.preKey)

\* A recipient is handed a bundle without its pre-key.
C6_Witness ==
  /\ Returned
  /\ IsSome(last.peer.identityKey)
  /\ ~IsSome(last.peer.preKey)
  /\ IsSome(last.recipientPreKey)
  /\ last.outcome = "invalid peer key bundle"

\* The envelope decode was handed has a walletPreKey.
HasWalletPreKey(bytes) == \E i \in 1 .. Len(bytes) : bytes[i].tag = 1

\* The envelope decode was handed has no ciphertext of the known variant.
NoKnownCiphertext(bytes) ==
  \A i \in 1 .. Len(bytes) :
    bytes[i].tag = 2 => ~IsSome(bytes[i].bytes.aes256GcmHkdfSha256)

\* C7 as stated: decode of an envelope without walletPreKey throws 'missing
\* wallet pre-key', decode of one with a walletPreKey but without a known
\* ciphertext throws 'missing bundle ciphertext', and neither returns a
\* bundle.
C7_MissingData ==
  last.op = "decode"
  => /\ ~HasWalletPreKey(last.bytes)
          => /\ last.outcome = "missing wallet pre-key"
             /\ last.result.value = None
     /\ (HasWalletPreKey(last.bytes) /\ NoKnownCiphertext(last.bytes))
          => /\ last.outcome = "missing bundle ciphertext"
             /\ last.result.value = None

\* C7 amended: without walletPreKey decode throws 'missing wallet pre-key'
\* and the signer is not asked; with a walletPreKey but without a known
\* ciphertext the signer is asked first, and decode throws 'missing bundle
\* ciphertext' when the signer has answered and the signer's failure when
\* it has not; no bundle is returned in any of these cases.
C7_MissingDataAfterSigner ==
  last.op = "decode"
  => /\ ~HasWalletPreKey(last.bytes)
          => /\ last.outcome = "missing wallet pre-key"
             /\ last.result.signerCalls = 0
             /\ last.result.value = None
     /\ (HasWalletPreKey(last.bytes) /\ NoKnownCiphertext(last.bytes))
          => /\ last.result.signerCalls = 1
             /\ last.answer # Rejected
                  => last.outcome = "missing bundle ciphertext"
             /\ last.answer = Rejected => last.outcome = "signer rejected"
             /\ last.result.value = None

\* An envelope whose ciphertext is of no known variant, and a signer that
\* answered.
C7_Witness ==
  /\ last.op = "decode"
  /\ last.bytes = DecodeInput("unknown variant", Get(stored).bytes)
  /\ last.answer # Rejected
  /\ last.outcome = "missing bundle ciphertext"

\* The last step decoded the stored bytes as they are.
DecodedStored ==
  /\ last.op = "decode"
  /\ IsSome(stored)
  /\ last.bytes = Get(stored).bytes

\* C8: decode, with the deterministic signer encode was called with, of the
\* bytes encode returned succeeds and returns a bundle with the same
\* identity key and the same pre-keys in the same order.
C8_RoundTrip ==
  ( /\ DecodedStored
    /\ last.wallet = Get(stored).wallet
    /\ last.wallet.deterministic )
  => /\ last.outcome = "ok"
     /\ IsSome(last.result.value)
     /\ Get(last.result.value).identityKey = Get(stored).bundle.identityKey
     /\ Len(Get(last.result.value).preKeys) = Len(Get(stored).bundle.preKeys)
     /\ \A i \in 1 .. Len(Get(stored).bundle.preKeys) :
          Get(last.result.value).preKeys[i] = Get(stored).bundle.preKeys[i]

\* A bundle of three pre-keys has come back.
C8_Witness ==
  /\ DecodedStored
  /\ last.wallet = Get(stored).wallet
  /\ last.wallet.deterministic
  /\ last.outcome = "ok"
  /\ Len(Get(last.result.value).preKeys) = 3

\* C9: decode of the stored bytes with a deterministic signer whose
\* signature over the stored walletPreKey is not the one encode got fails at
\* decryption and returns no bundle; and whoever the signer, decode of the
\* stored bytes never returns a bundle other than the encoded one.
C9_OtherSigner ==
  /\ ( /\ DecodedStored
       /\ last.wallet.deterministic
       /\ last.answer # Get(stored).signature )
     => /\ last.outcome = "decrypt failed"
        /\ last.result.value = None
  /\ (DecodedStored /\ IsSome(last.result.value))
     => last.result.value = Some(Get(stored).bundle)

\* Encoded with one deterministic signer, decoded with another.
C9_Witness ==
  /\ DecodedStored
  /\ last.wallet.deterministic
  /\ Get(stored).wallet.deterministic
  /\ last.wallet # Get(stored).wallet
  /\ last.outcome = "decrypt failed"

\* C10: encode of a bundle without pre-keys throws 'missing pre-keys'
\* without asking the signer or the random source, and returns no bytes.
C10_NoPreKeys ==
  (last.op = "encode" /\ Len(bundle[last.who].preKeys) = 0)
  => /\ last.outcome = "missing pre-keys"
     /\ last.result.signerCalls = 0
     /\ last.result.randomDraws = 0
     /\ last.result.output = None

\* A bundle from the constructor, with an identity key and no pre-key.
C10_Witness ==
  /\ last.op = "encode"
  /\ origin[last.who] = "constructor"
  /\ IsSome(bundle[last.who].identityKey)
  /\ Len(bundle[last.who].preKeys) = 0
  /\ last.outcome = "missing pre-keys"

\* generate was called with a wallet for bundle n.
WalletAsked(n) == IsSome(attest[n])

\* The identity key of bundle n carries a signature on its public half.
Attested(n) ==
  /\ IsSome(bundle[n].identityKey)
  /\ IsSome(Get(bundle[n].identityKey).publicKey.signature)

\* C11: when generate, called with a wallet, returns the bundle, the identity
\* key's public half carries the wallet's signature.
C11_AttestedOnReturn ==
  (last.op = "generate" /\ last.outcome = "ok" /\ WalletAsked(last.who))
  => Attested(last.who)

\* C12: when generate is called with a wallet and the wallet's signing
\* fails, generate returns no bundle: no bundle generate has returned is one
\* whose wallet refused.
C12_WalletFailureFailsGenerate ==
  \A n \in Names :
    (Generated(n) /\ WalletAsked(n)) => Get(attest[n]).state # "failed"

\* The last step was a sharedSecret call that got past the check of the
\* peer bundle's fields and returned or threw after the awaited verification.
Resumed == Returned /\ last.verified

\* The peer bundle has both keys and its pre-key is signed by its identity
\* key.
WellSigned(peer) ==
  /\ IsSome(peer.identityKey)
  /\ IsSome(peer.preKey)
  /\ ~BadlySigned(peer)

\* The positions of the caller's pre-keys whose public half is the one named.
Hits(n, recipientPreKey) ==
  {i \in 1 .. Len(bundle[n].preKeys) :
     bundle[n].preKeys[i].publicKey.point = Get(recipientPreKey).point}

\* C13 as stated: a recipient's call with a well-signed peer bundle and a
\* recipientPreKey that matches no local pre-key throws 'no matching
\* pre-key found'; one that matches uses the first match; a sender's call
\* never throws it.
C13_NotFoundWheneverUnmatched ==
  /\ (Returned /\ WellSigned(last.peer) /\ IsSome(last.recipientPreKey))
     => LET hits == Hits(last.who, last.recipientPreKey)
        IN  /\ hits = {}
                 => /\ last.outcome = "no matching pre-key found"
                    /\ last.result.secret = <<>>
            /\ hits # {}
                 => last.result.preKey =
                      Some(bundle[last.who].preKeys[
                             CHOOSE i \in hits : \A j \in hits : i <= j].publicKey)
  /\ (Returned /\ ~IsSome(last.recipientPreKey))
     => last.outcome # "no matching pre-key found"

\* C13 amended: the same of a caller that has its identity key: a recipient
\* without identity key fails with 'missing identity key' before its
\* pre-keys are searched.
C13_PreKeyNotFound ==
  /\ ( /\ Returned
       /\ WellSigned(last.peer)
       /\ IsSome(last.recipientPreKey)
       /\ IsSome(bundle[last.who].identityKey) )
     => LET hits == Hits(last.who, last.recipientPreKey)
        IN  /\ hits = {}
                 => /\ last.outcome = "no matching pre-key found"
                    /\ last.result.secret = <<>>
                    /\ last.result.dhCalls = 0
            /\ hits # {}
                 => /\ last.outcome = "ok"
                    /\ last.result.preKey =
                         Some(bundle[last.who].preKeys[
                                CHOOSE i \in hits : \A j \in hits : i <= j].publicKey)
  /\ (Returned /\ ~IsSome(last.recipientPreKey))
     => last.outcome # "no matching pre-key found"

\* A recipient with two pre-keys of its own is named a third.
C13_Witness ==
  /\ Resumed
  /\ WellSigned(last.peer)
  /\ IsSome(last.recipientPreKey)
  /\ Len(bundle[last.who].preKeys) = 2
  /\ Hits(last.who, last.recipientPreKey) = {}
  /\ last.outcome = "no matching pre-key found"

\* The four checks of sharedSecret, each said of the call's inputs.
PeerKeyMissing(peer) == ~(IsSome(peer.identityKey) /\ IsSome(peer.preKey))
IdentityMissing(n) == ~IsSome(bundle[n].identityKey)
NamedPreKeyMissing(n, recipientPreKey) ==
  IsSome(recipientPreKey) /\ Hits(n, recipientPreKey) = {}

CheckErrors ==
  {"invalid peer key bundle", "peer preKey signature invalid",
   "missing identity key", "no matching pre-key found"}

\* C14: a sharedSecret call throws the error of the first check that fails,
\* in the order peer keys present, peer pre-key signature, local identity
\* key, named pre-key found (recipient only), whatever later checks would
\* fail too; it throws none of these errors when none fails; and a call that
\* throws returns no secret.
C14_FirstFailingCheck ==
  Returned
  => /\ last.outcome =
          (IF PeerKeyMissing(last.peer) THEN "invalid peer key bundle"
           ELSE IF BadlySigned(last.peer) THEN "peer preKey signature invalid"
           ELSE IF IdentityMissing(last.who) THEN "missing identity key"
           ELSE IF NamedPreKeyMissing(last.who, last.recipientPreKey)
             THEN "no matching pre-key found"
           ELSE last.outcome)
     /\ ( /\ ~PeerKeyMissing(last.peer)
          /\ ~BadlySigned(last.peer)
          /\ ~IdentityMissing(last.who)
          /\ ~NamedPreKeyMissing(last.who, last.recipientPreKey) )
        => last.outcome \notin CheckErrors
     /\ last.outcome \in CheckErrors => last.result.secret = <<>>

\* A recipient without identity key, named a pre-key it does not have, is
\* handed a peer bundle whose pre-key was altered: three checks would fail.
C14_Witness ==
  /\ Resumed
  /\ BadlySigned(last.peer)
  /\ IdentityMissing(last.who)
  /\ NamedPreKeyMissing(last.who, last.recipientPreKey)
  /\ last.outcome = "peer preKey signature invalid"

\* The local pre-key a returned call selected: the current one in the
\* sender's role, the first one that matches recipientPreKey in the
\* recipient's.
SelectedPreKey ==
  IF IsSome(last.recipientPreKey)
  THEN LET hits == Hits(last.who, last.recipientPreKey)
       IN  bundle[last.who].preKeys[CHOOSE i \in hits : \A j \in hits : i <= j]
  ELSE bundle[last.who].preKeys[1]

\* C15: a call that returns a secret returns dh1 || dh2 || dh3, where with K
\* the selected local pre-key, I the local identity key and P the peer
\* bundle: the sender has dh1 = DH(I, P.preKey), dh2 = DH(K, P.identityKey),
\* the recipient dh1 = DH(K, P.identityKey), dh2 = DH(I, P.preKey), and both
\* have dh3 = DH(K, P.preKey).
C15_TripleDH ==
  /\ ( /\ Returned
       /\ WellSigned(last.peer)
       /\ ~IdentityMissing(last.who)
       /\ IF IsSome(last.recipientPreKey)
          THEN Hits(last.who, last.recipientPreKey) # {}
          ELSE Len(bundle[last.who].preKeys) > 0 )
     => last.outcome = "ok"
  /\ (Returned /\ last.outcome = "ok")
     => LET I == Get(bundle[last.who].identityKey).secret
            K == SelectedPreKey.secret
            Pid == Get(last.peer.identityKey).point
            Ppre == Get(last.peer.preKey).point
            dh == last.result.dh
        IN  /\ last.result.preKey = Some(SelectedPreKey.publicKey)
            /\ Len(dh) = 3
            /\ IF IsSome(last.recipientPreKey)
               THEN dh[1] = Pow(Pid, K) /\ dh[2] = Pow(Ppre, I)
               ELSE dh[1] = Pow(Ppre, I) /\ dh[2] = Pow(Pid, K)
            /\ dh[3] = Pow(Ppre, K)
            /\ last.result.secret =
                 ToBytes(dh[1]) \o ToBytes(dh[2]) \o ToBytes(dh[3])

\* A recipient selects an older pre-key of its list, and the three results
\* differ from one another.
C15_Witness ==
  /\ Resumed
  /\ last.outcome = "ok"
  /\ IsSome(last.recipientPreKey)
  /\ Len(bundle[last.who].preKeys) = 3
  /\ Hits(last.who, last.recipientPreKey) = {3}
  /\ Cardinality({last.result.dh[i] : i \in 1 .. 3}) = 3

\* The step taken was an addPreKey call of bundle n failing: its signing step
\* failed, or there was no identity key to sign with.
AddPreKeyFailed(n) ==
  /\ last'.op = "addPreKey"
  /\ last'.who = n
  /\ last'.outcome \in {"sign failed", "TypeError"}

\* C16: an addPreKey call that fails at its signing step leaves the bundle's
\* pre-key list as it was, same keys in the same order and so the same
\* current pre-key; and a key is in the list only once it has been signed:
\* no key still awaiting its signature is in the list.
C16_FailedSigningLeavesList ==
  /\ [][ \A n \in Names :
           AddPreKeyFailed(n)
             => /\ bundle'[n] = bundle[n]
                /\ getCurrentPreKey(bundle'[n]) = getCurrentPreKey(bundle[n])
       ]_vars
  /\ [](\A n \in Names : \A i \in 1 .. Len(pendingAdd[n]) :
          pendingAdd[n][i].secret \notin SeqSecrets(bundle[n].preKeys))

\* The signing of a third pre-key has failed: the two before are the list.
C16_Witness ==
  /\ last.op = "addPreKey"
  /\ last.outcome = "sign failed"
  /\ Len(last.before) = 2
  /\ bundle[last.who].preKeys = last.before
  /\ last.key.secret \notin SeqSecrets(bundle[last.who].preKeys)

\* Bundle n, in its owner's hands before and after the step, is changed by
\* the step.
BundleChanges(n) ==
  /\ status[n] = "ready"
  /\ status'[n] = "ready"
  /\ bundle'[n] # bundle[n]

\* C17: a step of sharedSecret or encode leaves every bundle's identity key
\* and pre-key list as they were, whether it returns or throws, and the
\* getters change nothing; a bundle generate or the constructor has returned
\* is changed by no step but one of its own addPreKey.
C17_OnlyAddPreKeyChanges ==
  /\ [][ last'.op \in {"sharedSecret", "encode"} => bundle' = bundle ]_vars
  /\ [][ \A n \in Names :
           BundleChanges(n)
             => /\ last'.op = "addPreKey"
                /\ last'.who = n
                /\ last'.outcome = "ok" ]_vars

\* The public key carries a signature made with the identity key's secret
\* over the public key's own bytes.
SignedBy(identityKey, pub) ==
  /\ IsSome(pub.signature)
  /\ Get(pub.signature).by = Pow(Group.g, identityKey.secret)
  /\ Get(pub.signature).over = pub.point

\* The peer bundle handed to the last call is what bundle m advertises now.
AdvertisedBy(m, peer) ==
  /\ Generated(m)
  /\ IsSome(bundle[m].identityKey)
  /\ Len(bundle[m].preKeys) > 0
  /\ peer = PublicKeyBundle(Some(Get(bundle[m].identityKey).publicKey),
                            Some(bundle[m].preKeys[1].publicKey))

\* C18: in a bundle generate has returned, after any number of addPreKey
\* calls, every pre-key of the list carries the identity key's signature over
\* its public bytes; and a sharedSecret call handed what such a bundle
\* advertises does not throw 'peer preKey signature invalid'.
C18_PreKeysSigned ==
  /\ \A n \in Names :
       Generated(n)
         => /\ IsSome(bundle[n].identityKey)
            /\ \A i \in 1 .. Len(bundle[n].preKeys) :
                 SignedBy(Get(bundle[n].identityKey),
                          bundle[n].preKeys[i].publicKey)
            /\ IsSome(getPublicKeyBundle(bundle[n]))
            /\ AdvertisedBy(n, Get(getPublicKeyBundle(bundle[n])))
  /\ (Returned /\ \E m \in Names : AdvertisedBy(m, last.peer))
     => /\ last.verified
        /\ last.outcome # "peer preKey signature invalid"

\* A call was handed what a bundle with three pre-keys advertises.
C18_Witness ==
  /\ Resumed
  /\ \E m \in Names :
       /\ AdvertisedBy(m, last.peer)
       /\ Len(bundle[m].preKeys) = 3
       /\ \A i \in 1 .. 3 :
            SignedBy(Get(bundle[m].identityKey), bundle[m].preKeys[i].publicKey)
  /\ last.outcome = "ok"

\* The last step ended an addPreKey call of a bundle whose calls, since none
\* was in flight, overlapped: two of them were suspended at the signing step
\* at one time.
OverlappedCallEnded ==
  /\ last.op = "addPreKey"
  /\ last.outcome \in {"ok", "sign failed"}
  /\ batch[last.who].overlapped

\* C19: when addPreKey calls of one bundle overlap, then after each of them
\* ends, and so after all have, the list is the keys signed so far, each
\* once and none of them a key of before, in front of the list the calls
\* found, which is unchanged in keys and order; the list has grown by the
\* number of calls that succeeded, and the keys still awaiting their
\* signature are still pending and not in the list.
C19_OverlappingAdds ==
  OverlappedCallEnded
  => LET n == last.who
         base == batch[n].base
         done == batch[n].done
         k == Cardinality(done)
         list == bundle[n].preKeys
     IN  /\ Len(list) = Len(base) + k
         /\ SubSeq(list, k + 1, Len(list)) = base
         /\ {list[i].secret : i \in 1 .. k} = done
         /\ done \cap SeqSecrets(base) = {}
         /\ \A i \in 1 .. Len(pendingAdd[n]) :
              pendingAdd[n][i].secret \notin SeqSecrets(list)

\* Two overlapping calls on a list of one key have both succeeded.
C19_Witness ==
  /\ OverlappedCallEnded
  /\ pendingAdd[last.who] = <<>>
  /\ Len(batch[last.who].base) = 1
  /\ Cardinality(batch[last.who].done) = 2
  /\ Len(bundle[last.who].preKeys) = 3

\* An addPreKey call of the caller completed while the last sharedSecret
\* call was suspended at the verification.
RotatedDuringCall ==
  /\ Resumed
  /\ Len(bundle[last.who].preKeys) > Len(last.preKeysAtCall)

\* C20: a call that returns a secret selected its local pre-key once, from
\* the list as it is when the awaited verification has completed, and used
\* that key both in the term with the peer's identity key and in dh3; so a
\* sender's call during which an addPreKey of its bundle completed uses the
\* pre-key that is current at the end of the verification, which is not the
\* one that was current when the call was made.
C20_SelectedAfterVerification ==
  (Resumed /\ last.outcome = "ok")
  => LET K == SelectedPreKey
         dh == last.result.dh
         withIdentity == IF IsSome(last.recipientPreKey) THEN dh[1] ELSE dh[2]
     IN  /\ last.result.preKey = Some(K.publicKey)
         /\ withIdentity = Pow(Get(last.peer.identityKey).point, K.secret)
         /\ dh[3] = Pow(Get(last.peer.preKey).point, K.secret)
         /\ (RotatedDuringCall /\ ~IsSome(last.recipientPreKey))
            => /\ K = bundle[last.who].preKeys[1]
               /\ \A i \in 1 .. Len(last.preKeysAtCall) :
                    K.secret # last.preKeysAtCall[i].secret

\* A sender's call during which its bundle, of one pre-key when the call was
\* made, got a second one.
C20_Witness ==
  /\ Resumed
  /\ last.outcome = "ok"
  /\ ~IsSome(last.recipientPreKey)
  /\ RotatedDuringCall
  /\ Len(last.preKeysAtCall) = 1
  /\ last.result.preKey = Some(bundle[last.who].preKeys[1].publicKey)
  /\ last.result.preKey # Some(last.preKeysAtCall[1].publicKey)

====
